---- MODULE Spec2Model ----
(***************************************************************************)
(* Model of hibrain-prof-notifier (src/main.py): the resilient fetcher     *)
(* (warm-up, retry loop, block signal), the main run (fetch loop, total    *)
(* failure branch, keyword aggregation) and the notification dispatch.     *)
(*                                                                         *)
(* Abstractions: a URL is a record [scheme, host, path]; an absolute link  *)
(* is a pair <<origin, path>>; a log line is a record of its kind, the URL *)
(* it mentions and the attempt number it mentions; an HTML document is a   *)
(* record [empty, anchors], the anchors in document order.                 *)
(***************************************************************************)
EXTENDS Integers, Sequences, FiniteSets, TLC

----------------------------------------------------------------------------
(* Bounds of the model. *)

MaxTargets == 2      \* longest CONFIG_URLS list explored
MaxLinksMax == 2     \* largest configured max_links explored (from 0)
MaxAnchors == 2      \* longest anchor list of a served document
MaxParts == 3        \* longest contents list of a span.td_receipt

----------------------------------------------------------------------------
(* Program constants. *)

\* fetch_page(url, max_retries=3)
max_retries == 3
\* CONFIG.get("max_links", 2)
DefaultMaxLinks == 2

\* status codes a server can answer with; 404 stands for "any other status"
Statuses == {200, 403, 429, 503, 404}
RetryStatuses == {403, 429, 503}

\* what one GET can produce: a network exception or a response
Exc == [exc |-> TRUE, status |-> 0, empty |-> FALSE]
Resp(st, e) == [exc |-> FALSE, status |-> st, empty |-> e]
Outcomes ==
    {Exc} \cup {Resp(st, FALSE) : st \in Statuses} \cup {Resp(200, TRUE)}

----------------------------------------------------------------------------
(* URLs. *)

\* a URL string is scheme "://" host, then the rest cut into pieces so that
\* every occurrence of "://www." in the rest is a piece of its own
Url(s, h, p) == [scheme |-> s, host |-> h, path |-> p]
NoUrl == Url("", "", <<>>)

UWww == Url("https", "www.hibrain.net", <<"/recruitment">>)
UMob == Url("https", "m.hibrain.net", <<"/recruitment">>)
UOther == Url("https", "jobs.example.org", <<"/list">>)
TargetURLs == {UWww, UMob, UOther}
\* a target whose query string holds another URL
UNested == Url("https", "www.hibrain.net",
               <<"/go?to=https", "://www.", "hibrain.net/jobs">>)

\* the configurations of the end-to-end specification: the leading targets of
\* two orders of the target URLs
TargetOrders == {<<UWww, UMob, UOther>>, <<UOther, UMob, UWww>>}
Configs == {SubSeq(t, 1, n) : t \in TargetOrders, n \in 0..MaxTargets}

\* origin = f"{parsed.scheme}://{parsed.netloc}"
Origin(u) == <<u.scheme, u.host>>

\* str.replace("://www.", "://m.") on the rest of the URL: every occurrence
ReplaceWww(p) == [i \in 1..Len(p) |-> IF p[i] = "://www." THEN "://m." ELSE p[i]]

\* url.replace("://www.", "://m.") applied when netloc == "www.hibrain.net"
MobileUrl(u) ==
    IF u.host = "www.hibrain.net"
    THEN [u EXCEPT !.host = "m.hibrain.net", !.path = ReplaceWww(u.path)]
    ELSE u

----------------------------------------------------------------------------
(* Documents. *)

Keywords == {"k1", "k2"}

SeqsUpTo(S, n) == UNION {[1..k -> S] : k \in 0..n}

\* a text is a sequence of tokens: a date, "~", " ", or an entity written out
D1 == "25.01.01"
D2 == "25.01.31"
NoPeriodInfo == <<"(no period info)">>
NbspTilde == <<"&nbsp;", "~", "&nbsp;">>

StripNone(s) == s
\* str.strip() and get_text(strip=True) of a single string
RECURSIVE Strip(_)
Strip(s) ==
    IF s = <<>> THEN s
    ELSE IF Head(s) = " " THEN Strip(Tail(s))
    ELSE IF s[Len(s)] = " " THEN Strip(SubSeq(s, 1, Len(s) - 1))
    ELSE s

\* str.replace('~~', '~'): one left-to-right pass over non-overlapping pairs
RECURSIVE ReplaceTildes(_)
ReplaceTildes(s) ==
    IF Len(s) = 0 THEN s
    ELSE IF Len(s) >= 2 /\ s[1] = "~" /\ s[2] = "~"
         THEN <<"~">> \o ReplaceTildes(SubSeq(s, 3, Len(s)))
         ELSE <<s[1]>> \o ReplaceTildes(Tail(s))

HasTilde(s) == \E i \in 1..Len(s) : s[i] = "~"

\* the contents of span.td_receipt: number and specialCharacter tags, strings
Part(cls, text) == [cls |-> cls, text |-> text]
Parts ==
    {Part("number", <<D1>>), Part("number", <<" ", D2>>),
     Part("specialCharacter", <<"~">>),
     Part("text", <<"~">>), Part("text", <<" ">>), Part("text", NbspTilde)}

\* what one element of receipt_span.contents adds to period_parts
PartText(content) ==
    IF content.cls = "number" THEN <<Strip(content.text)>>
    ELSE IF content.cls = "specialCharacter" THEN <<(<<"~">>)>>
    ELSE LET text == Strip(content.text) IN
         IF text # <<>> /\ text # NbspTilde THEN <<text>> ELSE <<>>

RECURSIVE period_parts(_)
period_parts(contents) ==
    IF contents = <<>> THEN <<>>
    ELSE PartText(Head(contents)) \o period_parts(Tail(contents))

\* "".join(parts)
RECURSIVE Join(_)
Join(parts) == IF parts = <<>> THEN <<>> ELSE Head(parts) \o Join(Tail(parts))

\* .replace('~~', '~').strip() on the joined text
Normalize(s) == Strip(ReplaceTildes(s))

\* the block around an anchor: whether an enclosing li exists, the text of its
\* div.date-text (empty when there is none), whether a li.row.sortRoot is
\* found, whether it has a span.td_receipt, and that span's contents
Block(li, date_text, row, receipt, contents) ==
    [li |-> li, date_text |-> date_text, row |-> row, receipt |-> receipt,
     contents |-> contents]
NoLi == Block(FALSE, <<>>, FALSE, FALSE, <<>>)
DateBlock(t) == Block(TRUE, t, FALSE, FALSE, <<>>)
NoRow == Block(TRUE, <<>>, FALSE, FALSE, <<>>)
NoReceipt == Block(TRUE, <<>>, TRUE, FALSE, <<>>)
ReceiptBlock(cs) == Block(TRUE, <<>>, TRUE, TRUE, cs)

extract_period(b) ==
    IF ~b.li THEN NoPeriodInfo
    ELSE IF Strip(b.date_text) # <<>> THEN Strip(b.date_text)
    ELSE IF ~b.row THEN NoPeriodInfo
    ELSE IF ~b.receipt THEN NoPeriodInfo
    ELSE LET period_str == Normalize(Join(period_parts(b.contents))) IN
         IF period_str # <<>> /\ HasTilde(period_str)
         THEN period_str
         ELSE NoPeriodInfo

\* the two blocks of the documents of the run: a mobile date-text, and none
P1 == DateBlock(<<D1, "~", D2>>)
P2 == NoLi
Periods == {P1, P2}

\* keyword in text: t1 contains k1 only, t2 contains k2 only
KeywordIn(kw, text) ==
    \/ kw = "k1" /\ text = "t1"
    \/ kw = "k2" /\ text = "t2"

\* raw href forms: absolute, relative, or one of javascript:/mailto:/#
HrefAbs == [kind |-> "abs", origin |-> <<"https", "www.hibrain.net">>, path |-> "/job/1"]
HrefRel == [kind |-> "rel", origin |-> <<"", "">>, path |-> "/job/1"]
HrefSkip == [kind |-> "skip", origin |-> <<"", "">>, path |-> ""]

Anchor(h, t, b) == [href |-> h, text |-> t, block |-> b]
\* the anchor alphabet: every href form and period under title t1, one anchor
\* under title t2, one anchor with a skipped href
Anchors ==
    {Anchor(h, "t1", p) : h \in {HrefAbs, HrefRel}, p \in Periods}
        \cup {Anchor(HrefAbs, "t2", P1), Anchor(HrefSkip, "t1", P1)}

Html(as) == [empty |-> FALSE, anchors |-> as]
EmptyHtml == [empty |-> TRUE, anchors |-> <<>>]
AllPages == {Html(as) : as \in SeqsUpTo(Anchors, MaxAnchors)}

\* the document the site serves at a URL in the end-to-end specification
PageAt(u) ==
    IF u.host = "m.hibrain.net"
    THEN Html(<<Anchor(HrefAbs, "t1", P2), Anchor(HrefRel, "t1", P1)>>)
    ELSE Html(<<Anchor(HrefSkip, "t1", P1)>>)

----------------------------------------------------------------------------
(* Keyword matching: find_keyword_links_in_html and main's aggregation. *)

CapReachedEarly(n, m) == n + 1 >= m
\* len(results) >= max_links, the test that ends a collecting loop
CapReached(n, m) == n >= m

UrlsOf(pairs) == {pairs[j][1] : j \in 1..Len(pairs)}

\* href_abs: an absolute href is kept, a relative one is joined to the origin
HrefAbsolute(origin, href) ==
    IF href.kind = "abs" THEN <<href.origin, href.path>> ELSE <<origin, href.path>>

\* the anchor loop of find_keyword_links_in_html, from anchor i on
RECURSIVE FindFrom(_, _, _, _, _, _)
FindFrom(as, i, origin, keyword, max_links, results) ==
    IF i > Len(as) THEN results
    ELSE LET a == as[i] IN
         IF a.href.kind = "skip"
         THEN FindFrom(as, i + 1, origin, keyword, max_links, results)
         ELSE LET href_abs == HrefAbsolute(origin, a.href) IN
              IF KeywordIn(keyword, a.text) /\ href_abs \notin UrlsOf(results)
              THEN LET r2 == Append(results, <<href_abs, extract_period(a.block)>>) IN
                   IF CapReached(Len(r2), max_links) THEN r2
                   ELSE FindFrom(as, i + 1, origin, keyword, max_links, r2)
              ELSE FindFrom(as, i + 1, origin, keyword, max_links, results)

find_keyword_links_in_html(html, base_url, keyword, max_links) ==
    FindFrom(html.anchors, 1, Origin(base_url), keyword, max_links, <<>>)

\* variant: the pairs of later pages come first
RECURSIVE FoundReversed(_, _, _, _)
FoundReversed(pages, i, kw, max_links) ==
    IF i > Len(pages) THEN <<>>
    ELSE FoundReversed(pages, i + 1, kw, max_links)
             \o find_keyword_links_in_html(pages[i][2], pages[i][1], kw, max_links)

\* found: the pairs of every fetched page, in html_pages order
RECURSIVE Found(_, _, _, _)
Found(pages, i, kw, max_links) ==
    IF i > Len(pages) THEN <<>>
    ELSE find_keyword_links_in_html(pages[i][2], pages[i][1], kw, max_links)
             \o Found(pages, i + 1, kw, max_links)

\* the unique loop of main, from entry i of found on
RECURSIVE UniqueFrom(_, _, _, _)
UniqueFrom(found, i, max_links, unique) ==
    IF i > Len(found) THEN unique
    ELSE IF found[i][1] \notin UrlsOf(unique)
         THEN LET u2 == Append(unique, found[i]) IN
              IF CapReached(Len(u2), max_links) THEN u2
              ELSE UniqueFrom(found, i + 1, max_links, u2)
         ELSE UniqueFrom(found, i + 1, max_links, unique)

MatchSetOf(pages, kw, max_links) ==
    UniqueFrom(Found(pages, 1, kw, max_links), 1, max_links, <<>>)

\* matches: only keywords whose unique list is non-empty get an entry
ComputeMatches(pages, max_links) ==
    LET hit == {kw \in Keywords : MatchSetOf(pages, kw, max_links) # <<>>}
    IN  [kw \in hit |-> MatchSetOf(pages, kw, max_links)]

----------------------------------------------------------------------------
(* Report bodies. *)

NoMatches == [kw \in {} |-> <<>>]
NoBody == [kind |-> "none", ip |-> "", logs |-> <<>>, matches |-> NoMatches]

IpOutcomes == {"ok", "bad_status", "exception"}
\* get_public_ip: the text it returns
IpText(o) == IF o = "ok" THEN "ip" ELSE IF o = "bad_status" THEN "(status)" ELSE "(failed)"

SubjectBlocked == "ip-block"
SubjectMatches == "matches"

\* the body built in the total-failure branch of main
FailureBody(ip, logs) == [kind |-> "ip-block", ip |-> ip, logs |-> logs, matches |-> NoMatches]
\* build_email_body(matches)
build_email_body(ip, ms) == [kind |-> "matches", ip |-> ip, logs |-> <<>>, matches |-> ms]

L(kind, u, n) == [kind |-> kind, url |-> u, n |-> n]

IpLogLoud(o) == IF o # "ok" THEN <<L("ip_failed", NoUrl, 0)>> ELSE <<>>
\* what get_public_ip writes to the log: a WARN line when the lookup raises
IpLog(o) == IF o = "exception" THEN <<L("ip_failed", NoUrl, 0)>> ELSE <<>>

\* the four lines main logs after building the body
Preview == <<L("preview", NoUrl, 0), L("preview_subject", NoUrl, 0),
             L("preview_body", NoUrl, 0), L("preview_end", NoUrl, 0)>>

----------------------------------------------------------------------------
(* State. *)

VARIABLES
    CONFIG_URLS,          \* CONFIG["web_addresses"]
    MAX_LINKS,            \* CONFIG["max_links"]
    pc,                   \* position of main
    idx,                  \* index in CONFIG_URLS of the target of the for loop
    url,                  \* fetch_page: url after the mobile rewrite
    attempt,              \* fetch_page: loop variable
    responses,            \* fetch_page: outcome of every GET of the current call
    sleeps,               \* fetch_page: delay of every time.sleep of the current call
    result,               \* fetch_page: returned value
    warmed_up,            \* SESSION._warmed_up
    warmups,              \* warm-up requests issued: [origin, ok]
    LAST_FORBIDDEN_INFO,
    LOG_MESSAGES,
    html_pages,           \* main: list of (u, html)
    fetchCalls,           \* arguments of the fetch_page calls made by main
    finals,               \* outcome of the last GET of every finished call
    matches,              \* main: keyword -> unique list
    subject, body,        \* main: the notification being dispatched
    emailCalls,           \* send_email calls: [subject, body]
    emailsSent,           \* messages handed to SMTP successfully
    issueCalls,           \* create_github_issue calls: [subject, body]
    issuesCreated         \* issues the API answered 201 for

vars == <<CONFIG_URLS, MAX_LINKS, pc, idx, url, attempt, responses, sleeps, result,
          warmed_up, warmups, LAST_FORBIDDEN_INFO, LOG_MESSAGES, html_pages,
          fetchCalls, finals, matches, subject, body, emailCalls, emailsSent,
          issueCalls, issuesCreated>>

configVars == <<CONFIG_URLS, MAX_LINKS>>
fetchVars == <<url, attempt, responses, sleeps, result>>
dispatchVars == <<subject, body, emailCalls, emailsSent, issueCalls, issuesCreated>>

\* LAST_FORBIDDEN_INFO = None
NoInfo == [url |-> NoUrl, status |-> 0]
\* fetch_page returning None / returning resp.text
ResultNone == [none |-> TRUE, html |-> EmptyHtml]
ResultHtml(h) == [none |-> FALSE, html |-> h]
\* truth value of a returned value: None and "" are false
Truthy(r) == ~r.none /\ ~r.html.empty

Log(lines) == LOG_MESSAGES' = LOG_MESSAGES \o lines

InitRun ==
    /\ pc = "start"
    /\ idx = 1
    /\ url = NoUrl
    /\ attempt = 0
    /\ responses = <<>>
    /\ sleeps = <<>>
    /\ result = ResultNone
    /\ warmed_up = FALSE
    /\ warmups = <<>>
    /\ LAST_FORBIDDEN_INFO = NoInfo
    /\ LOG_MESSAGES = <<>>
    /\ html_pages = <<>>
    /\ fetchCalls = <<>>
    /\ finals = <<>>
    /\ matches = NoMatches
    /\ subject = ""
    /\ body = NoBody
    /\ emailCalls = <<>>
    /\ emailsSent = <<>>
    /\ issueCalls = <<>>
    /\ issuesCreated = <<>>

Init ==
    /\ CONFIG_URLS \in Configs
    /\ MAX_LINKS = DefaultMaxLinks
    /\ InitRun

----------------------------------------------------------------------------
(* main: start and the fetch loop. *)

\* keywords = load_keywords(); log(...)
MainStart ==
    /\ pc = "start"
    /\ Log(<<L("keywords", NoUrl, 0)>>)
    /\ pc' = "loop"
    /\ UNCHANGED <<configVars, idx, fetchVars, warmed_up, warmups,
                   LAST_FORBIDDEN_INFO, html_pages, fetchCalls, finals, matches,
                   dispatchVars>>

\* variant: the warm-up is never made
NeedsWarmupNever(flag) == FALSE
\* warmup_session goes on unless getattr(SESSION, "_warmed_up", False)
NeedsWarmup(flag) == ~flag

\* variant: every call starts from an empty record
InfoAtEntryReset(info) == NoInfo
\* fetch_page declares the global and does not assign it at entry
InfoAtEntry(info) == info

\* one iteration of "for u in CONFIG_URLS" up to the warm-up of fetch_page
FetchEnter ==
    /\ pc = "loop"
    /\ idx <= Len(CONFIG_URLS)
    /\ LET u == CONFIG_URLS[idx]
           m == MobileUrl(u)
       IN  /\ fetchCalls' = Append(fetchCalls, u)
           /\ url' = m
           /\ Log(<<L("main_wait", u, 0)>>
                  \o (IF u.host = "www.hibrain.net"
                      THEN <<L("mobile", m, 0)>> ELSE <<>>))
    /\ attempt' = 1
    /\ responses' = <<>>
    /\ sleeps' = <<>>
    /\ result' = ResultNone
    /\ pc' = IF NeedsWarmup(warmed_up) THEN "warmup" ELSE "attempt"
    /\ LAST_FORBIDDEN_INFO' = InfoAtEntry(LAST_FORBIDDEN_INFO)
    /\ UNCHANGED <<configVars, idx, warmed_up, warmups,
                   html_pages, finals, matches, dispatchVars>>

\* variant: the warm-up exception is not handled
WarmupPropagates == FALSE
\* a warm-up exception is handled inside warmup_session
WarmupCatches == TRUE

\* variant: the flag is set only when the warm-up request succeeded
FlagAfterWarmupOk(o) == ~o.exc
\* finally: SESSION._warmed_up = True, whatever the request did
FlagAfterWarmup(o) == TRUE

\* warmup_session(url) when the flag is not set: GET origin
Warmup(o) ==
    /\ pc = "warmup"
    /\ warmups' = Append(warmups, [origin |-> Origin(url), ok |-> ~o.exc])
    /\ Log(<<L("warmup", url, 0),
             L(IF o.exc THEN "warmup_failed" ELSE "warmup_status", NoUrl, 0)>>)
    /\ warmed_up' = FlagAfterWarmup(o)
    /\ pc' = IF o.exc /\ ~WarmupCatches THEN "fetch_raised" ELSE "attempt"
    /\ UNCHANGED <<configVars, idx, fetchVars, LAST_FORBIDDEN_INFO, html_pages,
                   fetchCalls, finals, matches, dispatchVars>>

----------------------------------------------------------------------------
(* fetch_page: the retry loop. *)

\* resp.status_code == 200
IsOk(st) == st = 200
\* variant: every status but 200 is retried
RetryableLoose(st) == st # 200
\* resp.status_code in (403, 429, 503)
Retryable(st) == st \in RetryStatuses
\* variant: a 403 on any attempt is recorded
IsAnyForbidden(st, a) == st = 403
\* resp.status_code == 403 and attempt == max_retries
IsFinalForbidden(st, a) == st = 403 /\ a = max_retries
\* variant: the last retry is never made
MoreAttemptsEarly(a) == a < max_retries - 1
\* attempt < max_retries: "continue" instead of "return None"
MoreAttempts(a) == a < max_retries

\* fetch_page returns r to main
Return(r) ==
    /\ result' = r
    /\ pc' = "returned"
    /\ attempt' = attempt

\* variant: a retry does not use up the budget
NextAttemptSame(a) == a
\* the value after a in range(1, max_retries + 1)
NextAttempt(a) == a + 1

\* "continue": the next value of range(1, max_retries + 1), or the code after
\* the loop when the range is used up
Continue(lines) ==
    IF NextAttempt(attempt) <= max_retries
    THEN /\ attempt' = NextAttempt(attempt)
         /\ result' = result
         /\ pc' = pc
         /\ Log(lines)
    ELSE /\ Return(ResultNone)
         /\ Log(lines \o <<L("gave_up", url, 0)>>)

\* random.uniform(1.0, 3.0), in tenths: the two ends and the middle
Factors == {10, 20, 30}
\* the draw of the end-to-end specification, whose claims do not read delays
SeedFactors == {20}

\* variant: the delay does not depend on the attempt
DelayFlat(f, a) == f
\* delay = random.uniform(1.0, 3.0) * attempt, in tenths of a second
Delay(f, a) == f * a

\* one iteration of the for loop: sleep, GET url, classify the outcome
Attempt(o, f) ==
    /\ pc = "attempt"
    /\ sleeps' = Append(sleeps, Delay(f, attempt))
    /\ responses' = Append(responses, o)
    /\ LET wait == L("wait", url, attempt) IN
       IF o.exc
       THEN /\ LAST_FORBIDDEN_INFO' = LAST_FORBIDDEN_INFO
            /\ IF MoreAttempts(attempt)
               THEN Continue(<<wait, L("exception", url, attempt)>>)
               ELSE /\ Return(ResultNone)
                    /\ Log(<<wait, L("exception", url, attempt)>>)
       ELSE IF IsOk(o.status)
       THEN /\ LAST_FORBIDDEN_INFO' = LAST_FORBIDDEN_INFO
            /\ Return(ResultHtml(IF o.empty THEN EmptyHtml ELSE PageAt(url)))
            /\ Log(<<wait>>)
       ELSE IF Retryable(o.status)
       THEN /\ LAST_FORBIDDEN_INFO' =
                   IF IsFinalForbidden(o.status, attempt)
                   THEN [url |-> url, status |-> o.status]
                   ELSE LAST_FORBIDDEN_INFO
            /\ IF MoreAttempts(attempt)
               THEN Continue(<<wait, L("retry_status", url, attempt)>>)
               ELSE /\ Return(ResultNone)
                    /\ Log(<<wait, L("retry_status", url, attempt)>>)
       ELSE /\ LAST_FORBIDDEN_INFO' = LAST_FORBIDDEN_INFO
            /\ Return(ResultNone)
            /\ Log(<<wait, L("bad_status", url, 0)>>)
    /\ UNCHANGED <<configVars, idx, url, warmed_up, warmups, html_pages,
                   fetchCalls, finals, matches, dispatchVars>>

\* variant: a failed fetch ends the loop
NextIndexAbort(i, r) == IF r.none THEN Len(CONFIG_URLS) + 1 ELSE i + 1
\* the for loop goes on to the next target whatever fetch_page returned
NextIndex(i, r) == i + 1

\* main after fetch_page returned: keep the page or log, then the next target
FetchReturn ==
    /\ pc = "returned"
    /\ IF Truthy(result)
       THEN /\ html_pages' = Append(html_pages, <<CONFIG_URLS[idx], result.html>>)
            /\ UNCHANGED LOG_MESSAGES
       ELSE /\ Log(<<L("no_html", CONFIG_URLS[idx], 0)>>)
            /\ UNCHANGED html_pages
    /\ finals' = Append(finals, responses[Len(responses)])
    /\ idx' = NextIndex(idx, result)
    /\ pc' = "loop"
    /\ url' = NoUrl
    /\ attempt' = 0
    /\ responses' = <<>>
    /\ sleeps' = <<>>
    /\ result' = ResultNone
    /\ UNCHANGED <<configVars, warmed_up, warmups,
                   LAST_FORBIDDEN_INFO, fetchCalls, matches, dispatchVars>>

----------------------------------------------------------------------------
(* main after the loop. *)

\* variant: anything but a recorded 200 counts as a block
BlockDetectedLoose(info) == info.status # 200
\* LAST_FORBIDDEN_INFO and LAST_FORBIDDEN_INFO.get("status") == 403
BlockDetected(info) == info # NoInfo /\ info.status = 403

\* "if not html_pages": the total-failure branch
TotalFailure(ipo) ==
    /\ pc = "loop"
    /\ idx > Len(CONFIG_URLS)
    /\ html_pages = <<>>
    /\ IF BlockDetected(LAST_FORBIDDEN_INFO)
       THEN LET logs == LOG_MESSAGES \o IpLog(ipo)
            IN  /\ subject' = SubjectBlocked
                /\ body' = FailureBody(IpText(ipo), logs)
                /\ LOG_MESSAGES' = Append(logs, L("ip_block", NoUrl, 0))
                /\ pc' = "send_email"
       ELSE /\ Log(<<L("nothing_fetched", NoUrl, 0)>>)
            /\ pc' = "done"
            /\ UNCHANGED <<subject, body>>
    /\ UNCHANGED <<configVars, idx, fetchVars, warmed_up, warmups,
                   LAST_FORBIDDEN_INFO, html_pages, fetchCalls, finals, matches,
                   emailCalls, emailsSent, issueCalls, issuesCreated>>

\* the keyword loop, "if not matches", build_email_body and the preview
Match(ipo) ==
    /\ pc = "loop"
    /\ idx > Len(CONFIG_URLS)
    /\ html_pages # <<>>
    /\ matches' = ComputeMatches(html_pages, MAX_LINKS)
    /\ IF DOMAIN matches' = {}
       THEN /\ Log(<<L("no_links", NoUrl, 0)>>)
            /\ pc' = "done"
            /\ UNCHANGED <<subject, body>>
       ELSE /\ body' = build_email_body(IpText(ipo), matches')
            /\ subject' = SubjectMatches
            /\ Log(IpLog(ipo) \o Preview)
            /\ pc' = "send_email"
    /\ UNCHANGED <<configVars, idx, fetchVars, warmed_up, warmups,
                   LAST_FORBIDDEN_INFO, html_pages, fetchCalls, finals,
                   emailCalls, emailsSent, issueCalls, issuesCreated>>

----------------------------------------------------------------------------
(* Dispatch. *)

EmailOutcomes == {"missing_env", "smtp_error", "sent"}
IssueOutcomes == {"missing_env", "exception", "created", "rejected"}

\* send_email has no handler: a failure leaves it as an exception
SendEmailRaises(o) == o \in {"missing_env", "smtp_error"}
\* main has no handler around send_email
MainCatches == FALSE

\* send_email(subject, body)
SendEmail(o) ==
    /\ pc = "send_email"
    /\ emailCalls' = Append(emailCalls, [subject |-> subject, body |-> body])
    /\ IF SendEmailRaises(o)
       THEN /\ pc' = IF MainCatches THEN "create_issue" ELSE "raised"
            /\ UNCHANGED <<emailsSent, LOG_MESSAGES>>
       ELSE /\ emailsSent' = Append(emailsSent, [subject |-> subject, body |-> body])
            /\ Log(<<L("email_sent", NoUrl, 0)>>)
            /\ pc' = "create_issue"
    /\ UNCHANGED <<configVars, idx, fetchVars, warmed_up, warmups,
                   LAST_FORBIDDEN_INFO, html_pages, fetchCalls, finals, matches,
                   subject, body, issueCalls, issuesCreated>>

\* create_github_issue(subject, body)
CreateIssue(o) ==
    /\ pc = "create_issue"
    /\ issueCalls' = Append(issueCalls, [subject |-> subject, body |-> body])
    /\ issuesCreated' = IF o = "created"
                        THEN Append(issuesCreated, [subject |-> subject, body |-> body])
                        ELSE issuesCreated
    /\ Log(<<L("issue_" \o o, NoUrl, 0)>>)
    /\ pc' = "done"
    /\ UNCHANGED <<configVars, idx, fetchVars, warmed_up, warmups,
                   LAST_FORBIDDEN_INFO, html_pages, fetchCalls, finals, matches,
                   subject, body, emailCalls, emailsSent>>

----------------------------------------------------------------------------

Next ==
    \/ MainStart
    \/ FetchEnter
    \/ \E o \in Outcomes : Warmup(o)
    \/ \E o \in Outcomes, f \in SeedFactors : Attempt(o, f)
    \/ FetchReturn
    \/ \E ipo \in IpOutcomes : TotalFailure(ipo)
    \/ \E ipo \in IpOutcomes : Match(ipo)
    \/ \E o \in EmailOutcomes : SendEmail(o)
    \/ \E o \in IssueOutcomes : CreateIssue(o)

Spec == Init /\ [][Next]_vars

----------------------------------------------------------------------------
(* The aggregation on its own: main at the end of the fetch loop, every     *)
(* target fetched, over all documents of the bounded alphabet.              *)

MatchConfigs == {<<UWww>>, <<UWww, UMob>>, <<UOther, UMob>>}

InitMatch ==
    /\ CONFIG_URLS \in MatchConfigs
    /\ MAX_LINKS \in 0..MaxLinksMax
    /\ html_pages \in [1..Len(CONFIG_URLS) -> TargetURLs \X AllPages]
    /\ \A i \in 1..Len(CONFIG_URLS) : html_pages[i][1] = CONFIG_URLS[i]
    /\ pc = "loop"
    /\ idx = Len(CONFIG_URLS) + 1
    /\ url = NoUrl
    /\ attempt = 0
    /\ responses = <<>>
    /\ sleeps = <<>>
    /\ result = ResultNone
    /\ warmed_up = TRUE
    /\ warmups = <<>>
    /\ LAST_FORBIDDEN_INFO = NoInfo
    /\ LOG_MESSAGES = <<>>
    /\ fetchCalls = CONFIG_URLS
    /\ finals = [i \in 1..Len(CONFIG_URLS) |-> Resp(200, FALSE)]
    /\ matches = NoMatches
    /\ subject = ""
    /\ body = NoBody
    /\ emailCalls = <<>>
    /\ emailsSent = <<>>
    /\ issueCalls = <<>>
    /\ issuesCreated = <<>>

NextMatch == Match("ok")

SpecMatch == InitMatch /\ [][NextMatch]_vars

----------------------------------------------------------------------------
(* Claims. *)

RetryClass(o) == o.exc \/ o.status \in {403, 429, 503}
OkResp(o) == ~o.exc /\ o.status = 200
AllRetry(m) == \A j \in 1..m : RetryClass(responses[j])
AfterLoop == pc \in {"send_email", "create_issue", "done", "raised"}
Distinct(pairs) ==
    \A i, j \in 1..Len(pairs) : pairs[i][1] = pairs[j][1] => i = j

\* C1: when attempts 1..k-1 answer 403/429/503 or raise and attempt k answers
\* 200, fetch_page returns the HTML after exactly k GETs; when all max_retries
\* attempts fail that way it returns None after exactly max_retries GETs.
C1_RetryLoop ==
    LET k == Len(responses) IN
    /\ k <= max_retries
    /\ \A j \in 1..k :
         (AllRetry(j - 1) /\ OkResp(responses[j]))
            => /\ j = k
               /\ pc = "returned"
               /\ ~result.none
               /\ result.html = (IF responses[j].empty THEN EmptyHtml ELSE PageAt(url))
    /\ (pc = "returned" /\ AllRetry(k)) => (k = max_retries /\ result.none)
    /\ (k = max_retries /\ AllRetry(k)) => (pc = "returned" /\ result.none)

C1_Witness ==
    /\ pc = "returned"
    /\ Len(responses) = 3
    /\ responses[1] = Resp(403, FALSE)
    /\ responses[2] = Exc
    /\ responses[3] = Resp(200, FALSE)
    /\ ~result.none

\* C2: every MatchSet built by main has at most max_links entries and
\* pairwise distinct URLs, for every configured max_links.
C2_MatchSetBounded ==
    \A kw \in DOMAIN matches :
        /\ Len(matches[kw]) <= MAX_LINKS
        /\ Distinct(matches[kw])

AllFinalForbidden ==
    /\ Len(CONFIG_URLS) >= 1
    /\ Len(finals) = Len(CONFIG_URLS)
    /\ \A i \in 1..Len(finals) : finals[i] = Resp(403, FALSE)

\* C3: when every target fails with 403 on its final retry, the run makes
\* exactly one send_email call and one create_github_issue call, with the same
\* IP-block subject and body, and the body holds every log line logged before
\* it was built.
C3_OneBlockNotification ==
    (pc \in {"done", "raised"} /\ AllFinalForbidden)
        => /\ Len(emailCalls) = 1
           /\ Len(issueCalls) = 1
           /\ emailCalls[1] = issueCalls[1]
           /\ emailCalls[1].subject = SubjectBlocked
           /\ emailCalls[1].body.kind = "ip-block"
           /\ \E n \in 1..Len(LOG_MESSAGES) :
                emailCalls[1].body.logs = SubSeq(LOG_MESSAGES, 1, n)

AllFailedNoBlock ==
    /\ Len(finals) = Len(CONFIG_URLS)
    /\ \A i \in 1..Len(finals) : ~OkResp(finals[i])
    /\ LAST_FORBIDDEN_INFO.status # 403

\* C4 as stated: when every target fails and no 403 BlockSignal was recorded,
\* main dispatches a notification.
C4_GenericNotification ==
    (pc = "done" /\ Len(CONFIG_URLS) >= 1 /\ AllFailedNoBlock)
        => (Len(emailCalls) >= 1 \/ Len(issueCalls) >= 1)

\* C4 amended: when every target fails and no 403 BlockSignal was recorded,
\* main dispatches nothing: it logs the warning and returns.
C4_NoNotification ==
    (AfterLoop /\ AllFailedNoBlock)
        => /\ pc = "done"
           /\ emailCalls = <<>>
           /\ issueCalls = <<>>
           /\ LOG_MESSAGES[Len(LOG_MESSAGES)] = L("nothing_fetched", NoUrl, 0)

C4_Witness ==
    /\ pc = "done"
    /\ Len(CONFIG_URLS) = 2
    /\ finals = <<Resp(429, FALSE), Resp(404, FALSE)>>
    /\ emailCalls = <<>>

BlockedNotice(c) == c.subject = SubjectBlocked

\* C5: when some target's fetch answered 200, main sends no failure
\* notification, even with a BlockSignal recorded for another target.
C5_OnlyOnTotalFailure ==
    (\E i \in 1..Len(finals) : OkResp(finals[i]))
        => /\ subject # SubjectBlocked
           /\ \A j \in 1..Len(emailCalls) : ~BlockedNotice(emailCalls[j])
           /\ \A j \in 1..Len(issueCalls) : ~BlockedNotice(issueCalls[j])

\* C6: a delivery failure of send_email or create_github_issue never leaves
\* main as an exception.
C6_DeliveryContained == pc # "raised"

\* C7: fetch_page never raises: it always returns a value to main, and no
\* return happens without a GET of the target, failed warm-up or not.
C7_FetchNeverRaises ==
    /\ pc # "fetch_raised"
    /\ pc = "returned" => /\ Len(responses) >= 1
                          /\ (result.none \/ OkResp(responses[Len(responses)]))

C7_Witness ==
    /\ pc = "returned"
    /\ warmups = <<[origin |-> Origin(url), ok |-> FALSE]>>
    /\ Len(fetchCalls) = 1
    /\ Len(responses) = max_retries
    /\ responses[max_retries] = Exc
    /\ result.none

OtherStatus(o) == ~o.exc /\ o.status \notin {200, 403, 429, 503}

\* C8: a status other than 200/403/429/503 ends fetch_page at once: it is the
\* last GET of the call and None is returned.
C8_OtherStatusStops ==
    \A j \in 1..Len(responses) :
        OtherStatus(responses[j])
            => (j = Len(responses) /\ pc = "returned" /\ result.none)

C8_Witness ==
    /\ pc = "returned"
    /\ responses = <<Resp(404, FALSE)>>
    /\ result.none

\* C9: a GET changes LAST_FORBIDDEN_INFO exactly when it is the attempt
\* numbered max_retries and answers 403, and then to the fetched URL with 403;
\* no other step changes it.
C9_BlockSignalIff ==
    [][ IF /\ pc = "attempt"
           /\ Len(responses') = Len(responses) + 1
           /\ responses'[Len(responses')] = Resp(403, FALSE)
           /\ attempt = max_retries
        THEN LAST_FORBIDDEN_INFO' = [url |-> url, status |-> 403]
        ELSE LAST_FORBIDDEN_INFO' = LAST_FORBIDDEN_INFO ]_vars

C9_Witness ==
    /\ pc = "returned"
    /\ fetchCalls = <<UOther, UMob>>
    /\ responses = <<Resp(403, FALSE), Resp(429, FALSE), Resp(403, FALSE)>>
    /\ LAST_FORBIDDEN_INFO = [url |-> UMob, status |-> 403]

\* C10: main calls fetch_page for the targets in configuration order and, once
\* the loop is over, has called it for every one of them.
C10_EveryTargetFetched ==
    /\ Len(fetchCalls) <= Len(CONFIG_URLS)
    /\ fetchCalls = SubSeq(CONFIG_URLS, 1, Len(fetchCalls))
    /\ AfterLoop => fetchCalls = CONFIG_URLS

C10_Witness ==
    /\ pc = "done"
    /\ Len(CONFIG_URLS) = 2
    /\ fetchCalls = CONFIG_URLS
    /\ finals[1] = Resp(403, FALSE)
    /\ OkResp(finals[2])
    /\ LAST_FORBIDDEN_INFO # NoInfo

----------------------------------------------------------------------------
(* Reference notions for the aggregation claims. *)

\* every anchor of one fetched page whose text contains kw, in document order,
\* as (absolute URL, period), neither deduplicated nor truncated
RECURSIVE AnchorMatches(_, _, _, _)
AnchorMatches(as, i, origin, kw) ==
    IF i > Len(as) THEN <<>>
    ELSE (IF as[i].href.kind # "skip" /\ KeywordIn(kw, as[i].text)
          THEN <<<<HrefAbsolute(origin, as[i].href), extract_period(as[i].block)>>>>
          ELSE <<>>)
         \o AnchorMatches(as, i + 1, origin, kw)

PageMatches(pages, i, kw) ==
    AnchorMatches(pages[i][2].anchors, 1, Origin(pages[i][1]), kw)

\* the matches of all fetched pages in configuration order
RECURSIVE AllMatches(_, _, _)
AllMatches(pages, i, kw) ==
    IF i > Len(pages) THEN <<>>
    ELSE PageMatches(pages, i, kw) \o AllMatches(pages, i + 1, kw)

\* period of the first entry of pairs with URL u
FirstPeriod(pairs, u) ==
    pairs[CHOOSE j \in 1..Len(pairs) :
             /\ pairs[j][1] = u
             /\ \A k \in 1..(j - 1) : pairs[k][1] # u][2]

CountOf(pairs, u) == Cardinality({j \in 1..Len(pairs) : pairs[j][1] = u})

\* the MatchSet main holds for kw (none when kw has no entry)
MatchSet(kw) == IF kw \in DOMAIN matches THEN matches[kw] ELSE <<>>

Matched == pc \in {"send_email", "create_issue", "done", "raised"} /\ html_pages # <<>>

\* URLs kw matches on two different fetched targets
SharedUrls(kw) ==
    {u \in UrlsOf(AllMatches(html_pages, 1, kw)) :
        \E a, b \in 1..Len(html_pages) :
            /\ a < b
            /\ u \in UrlsOf(PageMatches(html_pages, a, kw))
            /\ u \in UrlsOf(PageMatches(html_pages, b, kw))}

\* C11 as stated (taken for max_links >= 1 only): a URL matched on an earlier
\* and on a later target is in the MatchSet exactly once, with the period of
\* its first occurrence.
C11_SharedUrlOnce ==
    (Matched /\ MAX_LINKS >= 1) =>
        \A kw \in Keywords : \A u \in SharedUrls(kw) :
            /\ CountOf(MatchSet(kw), u) = 1
            /\ FirstPeriod(MatchSet(kw), u)
                 = FirstPeriod(AllMatches(html_pages, 1, kw), u)

\* C11 amended: such a URL is in the MatchSet at most once; when it is there
\* it carries the period of its first occurrence in configuration order; it
\* is left out only when the MatchSet already holds max_links entries.
C11_FirstSeenWins ==
    Matched =>
        \A kw \in Keywords : \A u \in SharedUrls(kw) :
            /\ CountOf(MatchSet(kw), u) <= 1
            /\ CountOf(MatchSet(kw), u) = 1
                 => FirstPeriod(MatchSet(kw), u)
                      = FirstPeriod(AllMatches(html_pages, 1, kw), u)
            /\ CountOf(MatchSet(kw), u) = 0
                 => (MatchSet(kw) # <<>> /\ Len(MatchSet(kw)) >= MAX_LINKS)

C11_Witness ==
    /\ Matched
    /\ Len(html_pages) = 2
    /\ html_pages[1][2].anchors = <<Anchor(HrefAbs, "t1", P1)>>
    /\ html_pages[2][2].anchors = <<Anchor(HrefAbs, "t1", P2)>>
    /\ MatchSet("k1") = <<<<HrefAbsolute(<<"", "">>, HrefAbs), <<D1, "~", D2>>>>>>

InFetch == pc \in {"attempt", "returned"}

\* C12 as stated: whenever a target is being fetched, a warm-up request to that
\* target's own origin has been made earlier in the run.
C12_WarmupOwnOrigin ==
    InFetch => \E j \in 1..Len(warmups) : warmups[j].origin = Origin(url)

\* C12 amended: whenever a target is being fetched, one warm-up request has
\* been made earlier in the run, to the origin of the first configured target
\* after its mobile rewrite, whatever the origin of the target being fetched.
C12_WarmupFirstOrigin ==
    InFetch => /\ Len(warmups) >= 1
               /\ \A j \in 1..Len(warmups) :
                    warmups[j].origin = Origin(MobileUrl(CONFIG_URLS[1]))

C12_Witness ==
    /\ pc = "attempt"
    /\ idx = 2
    /\ Len(warmups) = 1
    /\ warmups[1].origin # Origin(url)

\* C13: no origin receives more than one warm-up request in a run.
C13_OneWarmupPerOrigin ==
    \A i, j \in 1..Len(warmups) :
        warmups[i].origin = warmups[j].origin => i = j

C13_Witness ==
    /\ pc = "done"
    /\ CONFIG_URLS = <<UWww, UMob>>
    /\ warmups = <<[origin |-> Origin(UMob), ok |-> FALSE]>>
    /\ finals = <<Resp(503, FALSE), Resp(429, FALSE)>>

----------------------------------------------------------------------------
(* The run on one target, over the URL forms of the host rewrite. *)

RewriteURLs == {UWww, UMob, UOther, UNested}

InitRewrite ==
    /\ CONFIG_URLS \in {<<u>> : u \in RewriteURLs}
    /\ MAX_LINKS = DefaultMaxLinks
    /\ InitRun

SpecRewrite == InitRewrite /\ [][Next]_vars

\* C14: a target on host www.hibrain.net is requested (warm-up and attempts) at
\* the same URL with only the host changed to m.hibrain.net; any other target
\* is requested unchanged.
C14_HostRewriteOnly ==
    pc \in {"warmup", "attempt", "returned"} =>
        LET u == CONFIG_URLS[idx] IN
        /\ url = (IF u.host = "www.hibrain.net"
                  THEN [u EXCEPT !.host = "m.hibrain.net"] ELSE u)
        /\ \A j \in 1..Len(warmups) : warmups[j].origin = Origin(url)

\* the step of main that calls build_email_body(matches)
BuildsBody == pc = "loop" /\ pc' = "send_email" /\ subject' = SubjectMatches

\* C15: building the match report is a pure function of the match sets: the
\* step adds nothing to LOG_MESSAGES beyond main's own preview lines and the
\* body depends on nothing but the matches.
C15_BodyBuildPure ==
    [][BuildsBody =>
        /\ LOG_MESSAGES' = LOG_MESSAGES \o Preview
        /\ body' = build_email_body("ip", matches')]_vars

\* C15 (amended): the body is the match sets together with the result of one
\* public-IP lookup; the step appends a WARN line exactly when that lookup
\* raised, then the preview, and leaves the fetch results, the block record
\* and the dispatch counters unchanged.
C15_BodyBuildEffects ==
    [][BuildsBody =>
        /\ body'.kind = "matches" /\ body'.matches = matches' /\ body'.logs = <<>>
        /\ body'.ip \in {"ip", "(status)", "(failed)"}
        /\ LOG_MESSAGES' = LOG_MESSAGES
                \o (IF body'.ip = "(failed)"
                    THEN <<L("ip_failed", NoUrl, 0)>> ELSE <<>>)
                \o Preview
        /\ UNCHANGED <<configVars, idx, fetchVars, warmed_up, warmups,
                       LAST_FORBIDDEN_INFO, html_pages, fetchCalls, finals,
                       emailCalls, emailsSent, issueCalls, issuesCreated>>]_vars

C15_Witness ==
    /\ pc = "send_email" /\ subject = SubjectMatches
    /\ body.ip = "(failed)"
    /\ LOG_MESSAGES[Len(LOG_MESSAGES) - 4].kind = "ip_failed"

MatchNotice(c) == c.subject = SubjectMatches

\* C16: when some target's fetch answered 200 and no keyword has a match, the
\* run ends normally with no email and no issue; a match notification is sent
\* only with a non-empty MatchSet, and every keyword in the report has one.
C16_QuietWithoutMatches ==
    /\ (AfterLoop /\ (\E i \in 1..Len(finals) : OkResp(finals[i]))
                  /\ DOMAIN matches = {})
            => pc = "done" /\ emailCalls = <<>> /\ issueCalls = <<>>
    /\ \A c \in {emailCalls[j] : j \in 1..Len(emailCalls)}
                \cup {issueCalls[j] : j \in 1..Len(issueCalls)} :
            MatchNotice(c) =>
                /\ DOMAIN matches # {}
                /\ c.body.matches = matches
                /\ \A kw \in DOMAIN c.body.matches : c.body.matches[kw] # <<>>

----------------------------------------------------------------------------
(* Period extraction: main at the end of the fetch loop with one fetched    *)
(* page holding one matching anchor, over the bounded blocks around it.     *)

DateTexts == {<<D1, "~", D2>>, <<" ", D1, "~", D2, " ">>, <<D1, " ", "~", " ", D2>>}

PeriodBlocks ==
    {NoLi, NoRow, NoReceipt}
        \cup {DateBlock(t) : t \in DateTexts}
        \cup {ReceiptBlock(cs) : cs \in SeqsUpTo(Parts, MaxParts)}

InitPeriod ==
    /\ CONFIG_URLS = <<UMob>>
    /\ MAX_LINKS = DefaultMaxLinks
    /\ html_pages \in {<<<<UMob, Html(<<Anchor(HrefAbs, "t1", b)>>)>>>> : b \in PeriodBlocks}
    /\ pc = "loop"
    /\ idx = 2
    /\ url = NoUrl
    /\ attempt = 0
    /\ responses = <<>>
    /\ sleeps = <<>>
    /\ result = ResultNone
    /\ warmed_up = TRUE
    /\ warmups = <<>>
    /\ LAST_FORBIDDEN_INFO = NoInfo
    /\ LOG_MESSAGES = <<>>
    /\ fetchCalls = CONFIG_URLS
    /\ finals = <<Resp(200, FALSE)>>
    /\ matches = NoMatches
    /\ subject = ""
    /\ body = NoBody
    /\ emailCalls = <<>>
    /\ emailsSent = <<>>
    /\ issueCalls = <<>>
    /\ issuesCreated = <<>>

NextPeriod == \E ipo \in IpOutcomes : Match(ipo)

SpecPeriod == InitPeriod /\ [][NextPeriod]_vars

\* the block of the one anchor, and the period main recorded for it
TheBlock == html_pages[1][2].anchors[1].block
ThePeriod == matches["k1"][1][2]
Reported == pc = "send_email" /\ "k1" \in DOMAIN matches
FromReceipt(b) == b.li /\ Strip(b.date_text) = <<>> /\ b.row /\ b.receipt

\* C17: the period text built from the td_receipt parts is a fixed point of
\* the normalization (collapse doubled tildes, strip): normalizing it again
\* gives the same text, for every sequence of parts.
C17_NormalizeIdempotent ==
    (Reported /\ FromReceipt(TheBlock) /\ ThePeriod # NoPeriodInfo)
        => Normalize(ThePeriod) = ThePeriod

\* a date range written without spaces around the tilde, in either structure
RangeNoSpaces(b) ==
    \/ b.li /\ b.date_text \in {<<D1, "~", D2>>, <<" ", D1, "~", D2, " ">>}
    \/ b = ReceiptBlock(<<Part("number", <<D1>>), Part("specialCharacter", <<"~">>),
                          Part("number", <<" ", D2>>)>>)

\* C18: for a date range written without spaces around the tilde, the period
\* in the MatchSet and in the report has the separator " ~ ".
C18_CanonicalSeparator ==
    (Reported /\ RangeNoSpaces(TheBlock))
        => /\ ThePeriod = <<D1, " ", "~", " ", D2>>
           /\ body.matches = matches

\* C18 (amended): for such a range the period in the MatchSet and in the
\* report is the text as written, with the bare tilde and no spaces added.
C18_SeparatorKept ==
    (Reported /\ RangeNoSpaces(TheBlock))
        => /\ ThePeriod = <<D1, "~", D2>>
           /\ body.matches = matches

C18_Witness ==
    /\ Reported
    /\ TheBlock = DateBlock(<<" ", D1, "~", D2, " ">>)
    /\ body.matches["k1"] = <<<<HrefAbsolute(Origin(UMob), HrefAbs), <<D1, "~", D2>>>>>>

\* entry j of pairs is the first one with its URL
IsFirst(pairs, j) == \A k \in 1..(j - 1) : pairs[k][1] # pairs[j][1]
\* how many first occurrences pairs holds up to entry j
FirstsUpTo(pairs, j) == Cardinality({k \in 1..j : IsFirst(pairs, k)})
\* the first n URL-distinct entries of pairs, in order
FirstDistinct(pairs, n) ==
    LET keep == {j \in 1..Len(pairs) : IsFirst(pairs, j) /\ FirstsUpTo(pairs, j) <= n}
    IN  [r \in 1..Cardinality(keep) |->
            pairs[CHOOSE j \in keep : FirstsUpTo(pairs, j) = r]]

\* C19: for max_links >= 1 the MatchSet main computes for a keyword equals
\* the first max_links URL-distinct matches of the concatenation of all
\* fetched pages' matches in configuration order.
C19_TruncateEarlyEquivalent ==
    (Matched /\ MAX_LINKS >= 1) =>
        \A kw \in Keywords :
            MatchSet(kw) = FirstDistinct(AllMatches(html_pages, 1, kw), MAX_LINKS)

C19_Witness ==
    /\ Matched
    /\ MAX_LINKS = 1
    /\ Len(html_pages) = 2
    /\ Len(FirstDistinct(PageMatches(html_pages, 1, "k1"), 2)) = 2
    /\ Len(PageMatches(html_pages, 2, "k1")) >= 1
    /\ MatchSet("k1") = <<PageMatches(html_pages, 1, "k1")[1]>>

\* steps one target can take: enter, warm-up, max_retries GETs, return
PerTarget == max_retries + 3

\* a variant of the run: an upper bound on the steps still to come
StepsLeft ==
    LET later == PerTarget * (Len(CONFIG_URLS) - idx) + 3 IN
    CASE pc = "start" -> PerTarget * Len(CONFIG_URLS) + 4
      [] pc = "loop" -> later + PerTarget
      [] pc = "warmup" -> later + max_retries + 2
      [] pc = "attempt" -> later + (max_retries - attempt) + 2
      [] pc = "returned" -> later + 1
      [] pc = "send_email" -> 2
      [] pc = "create_issue" -> 1
      [] OTHER -> 0

\* GETs of the fetch_page call in progress, warm-ups and fetch_page calls so far
RequestBudget ==
    /\ Len(responses) <= max_retries
    /\ Len(warmups) <= 1
    /\ Len(fetchCalls) <= Len(CONFIG_URLS)
    /\ fetchCalls = SubSeq(CONFIG_URLS, 1, Len(fetchCalls))

\* C20: every run of main terminates whatever the servers answer: each step
\* lowers a non-negative bound on the steps left; a fetch_page call issues at
\* most max_retries GETs, there is one call per configured target, and at
\* most one warm-up request in the run.
C20_BoundedRun ==
    [][StepsLeft' < StepsLeft /\ StepsLeft' >= 0 /\ RequestBudget']_vars

C20_Witness ==
    /\ pc = "done"
    /\ StepsLeft = 0
    /\ Len(CONFIG_URLS) = 2
    /\ finals = <<Resp(503, FALSE), Exc>>
    /\ Len(warmups) = 1
    /\ Len(fetchCalls) = 2

----------------------------------------------------------------------------
(* The run on one target, over the draws of the random delay factor. *)

InitDelay ==
    /\ CONFIG_URLS = <<UMob>>
    /\ MAX_LINKS = DefaultMaxLinks
    /\ InitRun

NextDelay ==
    \/ MainStart
    \/ FetchEnter
    \/ \E o \in Outcomes : Warmup(o)
    \/ \E o \in Outcomes, f \in Factors : Attempt(o, f)
    \/ FetchReturn
    \/ \E ipo \in IpOutcomes : TotalFailure(ipo)
    \/ \E ipo \in IpOutcomes : Match(ipo)
    \/ \E o \in EmailOutcomes : SendEmail(o)
    \/ \E o \in IssueOutcomes : CreateIssue(o)

SpecDelay == InitDelay /\ [][NextDelay]_vars

\* a sleep has preceded every GET of the call in progress
SleepBeforeEveryGet == Len(sleeps) = Len(responses)

----------------------------------------------------------------------------
(* The alternate program "main (5).py": one fixed target, fetched by        *)
(* fetch_html_with_retry, whose exceptions main turns into notifications.   *)

HIBRAIN_LIST_URL ==
    Url("https", "m.hibrain.net",
        <<"/recruitment/categories/ARAGP/categories/ARA01/recruits">>)

SubjectAccessError == "access-error"
AccessErrorBody(ip, logs) ==
    [kind |-> "access-error", ip |-> ip, logs |-> logs, matches |-> NoMatches]

\* get_public_ip of the alternate program: an address, or "Unknown"; no log
AltIpOutcomes == {"ok", "unknown"}
AltIpText(o) == IF o = "ok" THEN "ip" ELSE "Unknown"

\* random.uniform(backoff_min, backoff_max), in tenths: the two ends
AltFactors == {10, 20}

\* urljoin(base_url, href): a javascript:/mailto: href is kept as it is
AltAbsUrl(base_url, href) ==
    IF href.kind = "rel" THEN <<Origin(base_url), href.path>>
    ELSE <<href.origin, href.path>>

\* the anchor loop of parse_html_for_keywords for one keyword; no anchor of
\* the bounded documents has the period marker in its parent text
RECURSIVE AltKeywordMatches(_, _, _, _)
AltKeywordMatches(as, i, base_url, kw) ==
    IF i > Len(as) THEN <<>>
    ELSE (IF KeywordIn(kw, as[i].text)
          THEN <<<<AltAbsUrl(base_url, as[i].href), <<>>>>>>
          ELSE <<>>)
         \o AltKeywordMatches(as, i + 1, base_url, kw)

\* every keyword gets an entry, empty when nothing matched
parse_html_for_keywords(html, base_url) ==
    [kw \in Keywords |-> AltKeywordMatches(html.anchors, 1, base_url, kw)]

InitAlt ==
    /\ CONFIG_URLS = <<HIBRAIN_LIST_URL>>
    /\ MAX_LINKS = DefaultMaxLinks
    /\ pc = "alt_start"
    /\ idx = 1
    /\ url = NoUrl
    /\ attempt = 0
    /\ responses = <<>>
    /\ sleeps = <<>>
    /\ result = ResultNone
    /\ warmed_up = FALSE
    /\ warmups = <<>>
    /\ LAST_FORBIDDEN_INFO = NoInfo
    /\ LOG_MESSAGES = <<>>
    /\ html_pages = <<>>
    /\ fetchCalls = <<>>
    /\ finals = <<>>
    /\ matches = NoMatches
    /\ subject = ""
    /\ body = NoBody
    /\ emailCalls = <<>>
    /\ emailsSent = <<>>
    /\ issueCalls = <<>>
    /\ issuesCreated = <<>>

\* main up to the warm-up request
AltMainStart ==
    /\ pc = "alt_start"
    /\ Log(<<L("keywords", NoUrl, 0), L("main_wait", NoUrl, 0)>>)
    /\ pc' = "alt_warmup"
    /\ UNCHANGED <<configVars, idx, fetchVars, warmed_up, warmups,
                   LAST_FORBIDDEN_INFO, html_pages, fetchCalls, finals, matches,
                   dispatchVars>>

\* the warm-up GET of main, its exception caught, then the call of
\* fetch_html_with_retry(HIBRAIN_LIST_URL)
AltWarmup(o) ==
    /\ pc = "alt_warmup"
    /\ warmups' = Append(warmups, [origin |-> Origin(HIBRAIN_LIST_URL), ok |-> ~o.exc])
    /\ Log(<<L(IF o.exc THEN "warmup_failed" ELSE "warmup_status", NoUrl, 0)>>)
    /\ fetchCalls' = Append(fetchCalls, HIBRAIN_LIST_URL)
    /\ url' = HIBRAIN_LIST_URL
    /\ attempt' = 1
    /\ pc' = "alt_attempt"
    /\ UNCHANGED <<configVars, idx, responses, sleeps, result, warmed_up,
                   LAST_FORBIDDEN_INFO, html_pages, finals, matches, dispatchVars>>

\* variant: a 403 is an HTTP error like any other
IsForbiddenNever(st) == FALSE
\* if resp.status_code == 403: raise PermissionError, re-raised at once
IsForbidden(st) == st = 403

\* one iteration of the for loop of fetch_html_with_retry
AltAttempt(o, f) ==
    /\ pc = "alt_attempt"
    /\ sleeps' = Append(sleeps, f)
    /\ responses' = Append(responses, o)
    /\ LET wait == L("wait", url, attempt)
           code == L("status", url, attempt)
           failed == L("exception", url, attempt)
       IN
       IF ~o.exc /\ IsForbidden(o.status)
       THEN /\ Log(<<wait, code>>)
            /\ pc' = "alt_permission_error"
            /\ UNCHANGED <<attempt, result, html_pages>>
       ELSE IF ~o.exc /\ IsOk(o.status)
       THEN /\ Log(<<wait, code>>)
            /\ result' = ResultHtml(IF o.empty THEN EmptyHtml ELSE PageAt(url))
            /\ html_pages' = <<<<url, result'.html>>>>
            /\ pc' = "alt_returned"
            /\ UNCHANGED attempt
       ELSE /\ Log((IF o.exc THEN <<wait>> ELSE <<wait, code>>) \o <<failed>>)
            /\ IF attempt = max_retries
               THEN pc' = "alt_exception" /\ UNCHANGED attempt
               ELSE pc' = pc /\ attempt' = attempt + 1
            /\ UNCHANGED <<result, html_pages>>
    /\ finals' = IF pc' = "alt_attempt" THEN finals ELSE Append(finals, o)
    /\ UNCHANGED <<configVars, idx, url, warmed_up, warmups, LAST_FORBIDDEN_INFO,
                   fetchCalls, matches, dispatchVars>>

\* except PermissionError in main: the IP-block notification
AltForbiddenHandler(ipo) ==
    /\ pc = "alt_permission_error"
    /\ LET logs == Append(LOG_MESSAGES, L("access_403", NoUrl, 0)) IN
       /\ subject' = SubjectBlocked
       /\ body' = FailureBody(AltIpText(ipo), logs)
       /\ LOG_MESSAGES' = Append(logs, L("ip_block", NoUrl, 0))
    /\ pc' = "alt_send_email"
    /\ UNCHANGED <<configVars, idx, fetchVars, warmed_up, warmups,
                   LAST_FORBIDDEN_INFO, html_pages, fetchCalls, finals, matches,
                   emailCalls, emailsSent, issueCalls, issuesCreated>>

\* except Exception in main: the access-error notification
AltErrorHandler(ipo) ==
    /\ pc = "alt_exception"
    /\ LET logs == Append(LOG_MESSAGES, L("access_error", NoUrl, 0)) IN
       /\ subject' = SubjectAccessError
       /\ body' = AccessErrorBody(AltIpText(ipo), logs)
       /\ LOG_MESSAGES' = logs
    /\ pc' = "alt_send_email"
    /\ UNCHANGED <<configVars, idx, fetchVars, warmed_up, warmups,
                   LAST_FORBIDDEN_INFO, html_pages, fetchCalls, finals, matches,
                   emailCalls, emailsSent, issueCalls, issuesCreated>>

\* main after the fetch returned: parse, has_any_match, body and preview
AltParse(ipo) ==
    /\ pc = "alt_returned"
    /\ matches' = parse_html_for_keywords(result.html, HIBRAIN_LIST_URL)
    /\ IF \A kw \in Keywords : matches'[kw] = <<>>
       THEN /\ Log(<<L("no_links", NoUrl, 0)>>)
            /\ pc' = "alt_done"
            /\ UNCHANGED <<subject, body>>
       ELSE /\ body' = build_email_body(AltIpText(ipo), matches')
            /\ subject' = SubjectMatches
            /\ Log(Preview)
            /\ pc' = "alt_send_email"
    /\ UNCHANGED <<configVars, idx, fetchVars, warmed_up, warmups,
                   LAST_FORBIDDEN_INFO, html_pages, fetchCalls, finals,
                   emailCalls, emailsSent, issueCalls, issuesCreated>>

AltEmailOutcomes == {"missing_conf", "smtp_error", "sent"}

\* send_email of the alternate program: every failure is logged, none raised
AltSendEmail(o) ==
    /\ pc = "alt_send_email"
    /\ emailCalls' = Append(emailCalls, [subject |-> subject, body |-> body])
    /\ emailsSent' = IF o = "sent"
                     THEN Append(emailsSent, [subject |-> subject, body |-> body])
                     ELSE emailsSent
    /\ Log(<<L("email_" \o o, NoUrl, 0)>>)
    /\ pc' = "alt_create_issue"
    /\ UNCHANGED <<configVars, idx, fetchVars, warmed_up, warmups,
                   LAST_FORBIDDEN_INFO, html_pages, fetchCalls, finals, matches,
                   subject, body, issueCalls, issuesCreated>>

\* create_github_issue of the alternate program
AltCreateIssue(o) ==
    /\ pc = "alt_create_issue"
    /\ issueCalls' = Append(issueCalls, [subject |-> subject, body |-> body])
    /\ issuesCreated' = IF o = "created"
                        THEN Append(issuesCreated, [subject |-> subject, body |-> body])
                        ELSE issuesCreated
    /\ Log(<<L("issue_" \o o, NoUrl, 0)>>)
    /\ pc' = "alt_done"
    /\ UNCHANGED <<configVars, idx, fetchVars, warmed_up, warmups,
                   LAST_FORBIDDEN_INFO, html_pages, fetchCalls, finals, matches,
                   subject, body, emailCalls, emailsSent>>

NextAlt ==
    \/ AltMainStart
    \/ \E o \in Outcomes : AltWarmup(o)
    \/ \E o \in Outcomes, f \in AltFactors : AltAttempt(o, f)
    \/ \E ipo \in AltIpOutcomes : AltForbiddenHandler(ipo)
    \/ \E ipo \in AltIpOutcomes : AltErrorHandler(ipo)
    \/ \E ipo \in AltIpOutcomes : AltParse(ipo)
    \/ \E o \in AltEmailOutcomes : AltSendEmail(o)
    \/ \E o \in IssueOutcomes : AltCreateIssue(o)

SpecAlt == InitAlt /\ [][NextAlt]_vars

\* a failure that is not a 403: a network exception or another HTTP error
AltRetried(o) == o.exc \/ o.status \notin {200, 403}
AltDispatching == pc \in {"alt_send_email", "alt_create_issue", "alt_done"}

\* C22: in fetch_html_with_retry a 403 received before the retry budget is
\* used up is followed by another attempt and is not surfaced to main.
C22_ForbiddenRetried ==
    \A j \in 1..Len(responses) :
        (responses[j] = Resp(403, FALSE) /\ j < max_retries)
            => /\ (Len(responses) > j \/ pc = "alt_attempt")
               /\ pc # "alt_permission_error"

\* C22 (amended): a 403 on any attempt ends the call at once as a
\* PermissionError, which main turns into the IP-block notification; only
\* network exceptions and other HTTP errors are retried within the budget.
C22_ForbiddenSurfaced ==
    /\ \A j \in 1..Len(responses) :
          responses[j] = Resp(403, FALSE)
              => /\ j = Len(responses)
                 /\ pc = "alt_permission_error" \/ AltDispatching
                 /\ AltDispatching => subject = SubjectBlocked
    /\ \A j \in 1..Len(responses) :
          (AltRetried(responses[j]) /\ j < max_retries)
              => (Len(responses) > j \/ (pc = "alt_attempt" /\ attempt = j + 1))

C22_Witness ==
    /\ pc = "alt_done"
    /\ responses = <<Resp(503, FALSE), Resp(403, FALSE)>>
    /\ Len(emailCalls) = 1 /\ emailCalls[1].subject = SubjectBlocked
    /\ Len(issueCalls) = 1 /\ issueCalls[1].subject = SubjectBlocked

\* a GET answered 403 on the last attempt of a call
FinalForbiddenStep ==
    /\ pc = "attempt" /\ attempt = max_retries
    /\ responses' = Append(responses, Resp(403, FALSE))

\* C23: a recorded BlockSignal is never cleared: a step changes it only by
\* recording another final-attempt 403; so when no page was kept and some
\* target, in any position, ended on a final 403, the run is framed as an IP
\* block.
C23_BlockSignalKept ==
    [][/\ LAST_FORBIDDEN_INFO # NoInfo
            => \/ LAST_FORBIDDEN_INFO' = LAST_FORBIDDEN_INFO
               \/ /\ FinalForbiddenStep
                  /\ LAST_FORBIDDEN_INFO' = [url |-> url, status |-> 403]
       /\ (AfterLoop /\ html_pages = <<>>
             /\ \E i \in 1..Len(finals) : finals[i] = Resp(403, FALSE))'
            => /\ LAST_FORBIDDEN_INFO'.status = 403
               /\ subject' = SubjectBlocked
               /\ body'.kind = "ip-block"
               /\ \A j \in 1..Len(emailCalls') : BlockedNotice(emailCalls'[j])
               /\ \A j \in 1..Len(issueCalls') : BlockedNotice(issueCalls'[j])]_vars

C23_Witness ==
    /\ pc = "create_issue"
    /\ finals = <<Resp(403, FALSE), Resp(503, FALSE)>>
    /\ LAST_FORBIDDEN_INFO = [url |-> MobileUrl(CONFIG_URLS[1]), status |-> 403]
    /\ Len(emailCalls) = 1 /\ BlockedNotice(emailCalls[1])

====
